---- MODULE Spec2Model ----
(***************************************************************************)
(* A model of lollms/media.py: the three media helpers AudioRecorder,      *)
(* WebcamImageSender and MusicPlayer.  Each helper is a controlling thread *)
(* (the host that calls the public methods) and the worker threads the     *)
(* helper spawns; a step of the model is one statement (or one library     *)
(* call) of one thread, so that every interleaving of the unsynchronised   *)
(* threads is a behaviour.  The three helpers share nothing, and each has  *)
(* a specification of its own.                                             *)
(***************************************************************************)
EXTENDS Integers, Sequences, FiniteSets, TLC

(***************************************************************************)
(* Bounds of the model.                                                    *)
(***************************************************************************)
\* start_recording calls the controlling thread makes (one worker and one stream each)
MaxStarts == 1
\* further start_recording calls, made where a specification lets the
\* controlling thread start the same instance again
MaxRestarts == 1
\* stop_recording calls the controlling thread makes
MaxStops == 2
\* chunks the microphone delivers in all
MaxChunks == 2
\* the last second of the clock
MaxTime == 3
\* frames the camera delivers in all
MaxFrames == 2
\* pause, resume and stop calls made on the player
MaxCalls == 3
\* length of the music track, in steps of playback
TrackLen == 2

(***************************************************************************)
(* AudioRecorder: constructor defaults (media.py line 41).                 *)
(* silence_threshold = 0.01 is the fraction num/den.                       *)
(***************************************************************************)
silence_threshold_num == 1
silence_threshold_den == 100
silence_duration == 2

VARIABLES
    \* ---- AudioRecorder: the instance's fields
    is_recording,      \* self.is_recording
    audio_stream,      \* self.audio_stream: 0 is None, otherwise the id of a stream
    audio_frames,      \* self.audio_frames: the buffer, a sequence of chunks
    last_sound_time,   \* self.last_sound_time
    \* ---- AudioRecorder: its environment
    stream_state,      \* the audio library's state of every stream
    now,               \* time.time(), in whole seconds
    wav_file,          \* the bytes of the file at self.filename
    wav_writes,        \* how many times that file has been written
    \* ---- AudioRecorder: the threads
    rpc,               \* position of the controlling thread (0) and of each worker
    rdata,             \* each worker's local `data`
    ctl_starts,        \* start_recording calls made
    ctl_stops,         \* stop_recording calls the controlling thread made
    ctl_last,          \* how the controlling thread's last call ended
    \* ---- AudioRecorder: history
    read_log,          \* every chunk read, in read order
    self_stops,        \* stop_recording calls made by a worker
    closes,            \* per stream, the close calls that succeeded
    stop_again,        \* the controlling thread's stop_recording call in progress
                       \* (or its last one) began after an earlier stop_recording
                       \* on the same stream had completed
    silence_began,     \* when the silence being recorded began: the time the
                       \* stream was opened, or of the last chunk that was
                       \* not silent
    late_reads,        \* per worker still running, the chunks it has read
                       \* while is_recording was False
    \* ---- WebcamImageSender: the instance's fields
    is_running,        \* self.is_running
    capture_thread,    \* self.capture_thread: 0 is None, otherwise the id of a worker
    last_image,        \* self.last_image: NoImage is None, otherwise a grayscale image
    last_change_time,  \* self.last_change_time: -1 is None
    \* ---- WebcamImageSender: its environment and threads
    cam_state,         \* per worker, the camera handle `cap` it holds
    cpc,               \* position of the controlling thread (0) and of each worker
    cframe,            \* each worker's local `frame`
    cam_starts,        \* start_capture calls made
    cam_stops,         \* stop_capture calls made
    cam_last,          \* how the controlling thread's last call ended
    frames_read,       \* frames the camera has delivered
    emitted,           \* "image" events pushed to the channel
    late_frames,       \* per worker still in its loop, the frames it has
                       \* read while is_running was False
    late_emits,        \* per worker still in its loop, the events it has
                       \* emitted while is_running was False
    \* ---- MusicPlayer: the instance's fields
    paused,            \* self.paused
    stopped,           \* self.stopped
    \* ---- MusicPlayer: its environment and threads
    mixer,             \* the state of pygame.mixer and its music stream
    track_pos,         \* how far the loaded track has played
    busy_when_paused,  \* what get_busy() answers for paused music in the
                       \* pygame that is installed (lines 10-14 install the
                       \* current one): True before 2.0.1, False from 2.0.1
    mpc,               \* position of the controlling thread (0) and of the worker (1)
    mp_calls,          \* pause, resume and stop calls made
    mp_last,           \* how the controlling thread's last call ended
    stop_called,       \* stop() has been called
    pause_resume,      \* "paused" once pause() was called while the track
                       \* played, "resumed" once resume() was called after that
    bodies_after_stop  \* loop bodies the worker ran after stop() was called

recVars == <<is_recording, audio_stream, audio_frames, last_sound_time,
             stream_state, wav_file, wav_writes, rpc, rdata,
             ctl_starts, ctl_stops, ctl_last, read_log, self_stops, closes,
             stop_again, silence_began, late_reads>>

camVars == <<is_running, capture_thread, last_image, last_change_time,
             cam_state, cpc, cframe, cam_starts, cam_stops, cam_last,
             frames_read, emitted, late_frames, late_emits>>

mpVars == <<paused, stopped, mixer, track_pos, busy_when_paused, mpc,
            mp_calls, mp_last, stop_called, pause_resume,
            bodies_after_stop>>

vars == <<now, recVars, camVars, mpVars>>

(***************************************************************************)
(* AudioRecorder                                                           *)
(***************************************************************************)
Ctl == 0
Workers == 1..(MaxStarts + MaxRestarts)
Streams == 1..(MaxStarts + MaxRestarts)
NoData == <<>>

\* A chunk is the sequence of byte values stream.read returns: one all-zero
\* chunk and one that is not.
Chunks == {<<0, 0>>, <<3, 4>>}

RECURSIVE squared_sum(_)
\* sum([sample ** 2 for sample in data])
squared_sum(data) ==
    IF data = <<>> THEN 0
    ELSE Head(data) * Head(data) + squared_sum(Tail(data))

\* _calculate_rms(data) < num/den, both sides squared:
\* (squared_sum / len(data)) ** 0.5 < num/den
rms_below(data, num, den) ==
    squared_sum(data) * den * den < num * num * Len(data)

\* rms < self.silence_threshold
IsSilent(data) == rms_below(data, silence_threshold_num, silence_threshold_den)

RECURSIVE Join(_)
\* b''.join(self.audio_frames)
Join(frames) ==
    IF frames = <<>> THEN <<>>
    ELSE Head(frames) \o Join(Tail(frames))

\* ---- the audio library, as the specification describes it: a stream is
\* open, then stopped, then closed; reading needs an open stream, stopping a
\* stream that is not running does nothing, and closing a closed stream fails.
StreamReadFails(st) == st # "open"
StreamAfterStop(st) == IF st = "open" THEN "stopped" ELSE st
StreamCloseFails(st) == st = "closed"

RecInit ==
    /\ is_recording = FALSE
    /\ audio_stream = 0
    /\ audio_frames = <<>>
    /\ last_sound_time = 0
    /\ stream_state = [s \in Streams |-> "unopened"]
    /\ wav_file = <<>>
    /\ wav_writes = 0
    /\ rpc = [t \in {Ctl} \cup Workers |-> IF t = Ctl THEN "idle" ELSE "unborn"]
    /\ rdata = [w \in Workers |-> NoData]
    /\ ctl_starts = 0
    /\ ctl_stops = 0
    /\ ctl_last = "none"
    /\ read_log = <<>>
    /\ self_stops = 0
    /\ closes = [s \in Streams |-> 0]
    /\ stop_again = FALSE
    /\ silence_began = 0
    /\ late_reads = [w \in Workers |-> 0]

\* How a call ends for thread t: the controlling thread goes back to its
\* caller; a worker returns into its loop, or dies on an exception.
Returned(t) == IF t = Ctl THEN "idle" ELSE "loop"
Raised(t) == IF t = Ctl THEN "idle" ELSE "dead"
CtlOutcome(t, what) == IF t = Ctl THEN what ELSE ctl_last

\* time.time() advances
Tick ==
    /\ now < MaxTime
    /\ now' = now + 1
    /\ UNCHANGED <<recVars, camVars, mpVars>>

\* start_recording, line 57: self.is_recording = True, in the first `limit`
\* calls of the controlling thread
StartRecording_SetFlagWithin(limit) ==
    /\ rpc[Ctl] = "idle"
    /\ ctl_starts < limit
    /\ is_recording' = TRUE
    /\ ctl_starts' = ctl_starts + 1
    /\ rpc' = [rpc EXCEPT ![Ctl] = "start_open"]
    /\ stop_again' = FALSE
    /\ UNCHANGED <<audio_stream, audio_frames, last_sound_time, stream_state,
                   now, wav_file, wav_writes, rdata, ctl_stops, ctl_last,
                   read_log, self_stops, closes>>
    /\ late_reads' = [w \in Workers |-> 0]
    /\ UNCHANGED silence_began
    /\ UNCHANGED <<camVars, mpVars>>

\* start_recording, line 57, where the instance is started MaxStarts times
StartRecording_SetFlag == StartRecording_SetFlagWithin(MaxStarts)

\* start_recording, line 57, where the instance may be started again
StartRecording_SetFlag_Again ==
    StartRecording_SetFlagWithin(MaxStarts + MaxRestarts)

\* start_recording, lines 58-64: self.audio_stream = pyaudio.PyAudio().open(...);
\* the open either yields a new stream or raises
StartRecording_Open ==
    /\ rpc[Ctl] = "start_open"
    /\ \/ /\ audio_stream' = ctl_starts
          /\ stream_state' = [stream_state EXCEPT ![ctl_starts] = "open"]
          /\ rpc' = [rpc EXCEPT ![Ctl] = "start_spawn"]
          /\ silence_began' = now
          /\ UNCHANGED ctl_last
       \/ /\ rpc' = [rpc EXCEPT ![Ctl] = "idle"]
          /\ ctl_last' = "start_raised"
          /\ UNCHANGED <<audio_stream, stream_state, silence_began>>
    /\ UNCHANGED late_reads
    /\ UNCHANGED <<is_recording, audio_frames, last_sound_time, now, wav_file,
                   wav_writes, rdata, ctl_starts, ctl_stops, read_log,
                   self_stops, closes, stop_again>>
    /\ UNCHANGED <<camVars, mpVars>>

\* start_recording, line 68: threading.Thread(target=self._record).start()
StartRecording_Spawn ==
    /\ rpc[Ctl] = "start_spawn"
    /\ rpc' = [rpc EXCEPT ![Ctl] = "idle", ![ctl_starts] = "loop"]
    /\ ctl_last' = "start_ok"
    /\ UNCHANGED <<is_recording, audio_stream, audio_frames, last_sound_time,
                   stream_state, now, wav_file, wav_writes, rdata, ctl_starts,
                   ctl_stops, read_log, self_stops, closes, stop_again>>
    /\ UNCHANGED <<silence_began, late_reads>>
    /\ UNCHANGED <<camVars, mpVars>>

\* _record, line 71: while self.is_recording
Record_Loop(w) ==
    /\ rpc[w] = "loop"
    /\ rpc' = [rpc EXCEPT ![w] = IF is_recording THEN "read" ELSE "done"]
    /\ late_reads' = [late_reads EXCEPT ![w] = IF is_recording THEN @ ELSE 0]
    /\ UNCHANGED <<is_recording, audio_stream, audio_frames, last_sound_time,
                   stream_state, now, wav_file, wav_writes, rdata, ctl_starts,
                   ctl_stops, ctl_last, read_log, self_stops, closes, stop_again>>
    /\ UNCHANGED silence_began
    /\ UNCHANGED <<camVars, mpVars>>

\* _record, line 72: data = self.audio_stream.read(self.chunk_size)
Record_Read(w) ==
    /\ rpc[w] = "read"
    /\ IF StreamReadFails(stream_state[audio_stream])
       THEN /\ rpc' = [rpc EXCEPT ![w] = "dead"]
            /\ late_reads' = [late_reads EXCEPT ![w] = 0]
            /\ UNCHANGED <<rdata, read_log>>
       ELSE /\ Len(read_log) < MaxChunks
            /\ \E c \in Chunks :
                  /\ rdata' = [rdata EXCEPT ![w] = c]
                  /\ read_log' = Append(read_log, c)
            /\ late_reads' = [late_reads EXCEPT
                                 ![w] = IF is_recording THEN @ ELSE @ + 1]
            /\ rpc' = [rpc EXCEPT ![w] = "process"]
    /\ UNCHANGED silence_began
    /\ UNCHANGED <<is_recording, audio_stream, audio_frames, last_sound_time,
                   stream_state, now, wav_file, wav_writes, ctl_starts,
                   ctl_stops, ctl_last, self_stops, closes, stop_again>>
    /\ UNCHANGED <<camVars, mpVars>>

\* SelfStopDue with the comparison of line 79 made strict
SelfStopDue_Strict(data) ==
    /\ IsSilent(data)
    /\ now - last_sound_time > silence_duration

\* SelfStopDue without the energy test of line 77
SelfStopDue_NoRms(data) ==
    now - last_sound_time >= silence_duration

\* _record, lines 76-80: the worker stops the recording itself
SelfStopDue(data) ==
    /\ IsSilent(data)
    /\ now - last_sound_time >= silence_duration

\* _record, lines 73-82: append the chunk, then the silence check
Record_Process(w) ==
    /\ rpc[w] = "process"
    /\ audio_frames' = Append(audio_frames, rdata[w])
    /\ rdata' = [rdata EXCEPT ![w] = NoData]
    /\ IF SelfStopDue(rdata[w])
       THEN /\ rpc' = [rpc EXCEPT ![w] = "stop_flag"]
            /\ self_stops' = self_stops + 1
            /\ UNCHANGED <<last_sound_time, silence_began>>
       ELSE /\ rpc' = [rpc EXCEPT ![w] = "loop"]
            /\ last_sound_time' = IF IsSilent(rdata[w]) THEN last_sound_time ELSE now
            /\ silence_began' = IF IsSilent(rdata[w]) THEN silence_began ELSE now
            /\ UNCHANGED self_stops
    /\ UNCHANGED late_reads
    /\ UNCHANGED <<is_recording, audio_stream, stream_state, now, wav_file,
                   wav_writes, ctl_starts, ctl_stops, ctl_last, read_log, closes, stop_again>>
    /\ UNCHANGED <<camVars, mpVars>>

\* an earlier stop_recording call on the current stream has run to its end
StopCompleted ==
    /\ audio_stream # 0
    /\ stream_state[audio_stream] = "closed"
    /\ \A u \in {Ctl} \cup Workers : rpc[u] # "stop_write"

\* StopRecording_SetFlag of a stop_recording that returns at once when the
\* recorder is not recording
StopRecording_SetFlag_Guarded(t) ==
    /\ IF t = Ctl
       THEN rpc[t] = "idle" /\ ctl_stops < MaxStops
       ELSE rpc[t] = "stop_flag"
    /\ is_recording' = FALSE
    /\ ctl_stops' = IF t = Ctl THEN ctl_stops + 1 ELSE ctl_stops
    /\ stop_again' = IF t = Ctl THEN StopCompleted ELSE stop_again
    /\ IF is_recording
       THEN /\ rpc' = [rpc EXCEPT ![t] = "stop_stream"]
            /\ UNCHANGED ctl_last
       ELSE /\ rpc' = [rpc EXCEPT ![t] = Returned(t)]
            /\ ctl_last' = CtlOutcome(t, "stop_ok")
    /\ UNCHANGED <<audio_stream, audio_frames, last_sound_time, stream_state,
                   now, wav_file, wav_writes, rdata, ctl_starts,
                   read_log, self_stops, closes>>
    /\ UNCHANGED <<silence_began, late_reads>>
    /\ UNCHANGED <<camVars, mpVars>>

\* stop_recording, line 90: self.is_recording = False.  For the controlling
\* thread this step is the call itself.
StopRecording_SetFlag(t) ==
    /\ IF t = Ctl
       THEN rpc[t] = "idle" /\ ctl_stops < MaxStops
       ELSE rpc[t] = "stop_flag"
    /\ is_recording' = FALSE
    /\ ctl_stops' = IF t = Ctl THEN ctl_stops + 1 ELSE ctl_stops
    /\ stop_again' = IF t = Ctl THEN StopCompleted ELSE stop_again
    /\ rpc' = [rpc EXCEPT ![t] = "stop_stream"]
    /\ UNCHANGED <<audio_stream, audio_frames, last_sound_time, stream_state,
                   now, wav_file, wav_writes, rdata, ctl_starts, ctl_last,
                   read_log, self_stops, closes>>
    /\ UNCHANGED <<silence_began, late_reads>>
    /\ UNCHANGED <<camVars, mpVars>>

\* stop_recording, line 91: self.audio_stream.stop_stream(); with no stream
\* (None) the attribute access raises
StopRecording_StopStream(t) ==
    /\ rpc[t] = "stop_stream"
    /\ IF audio_stream = 0
       THEN /\ rpc' = [rpc EXCEPT ![t] = Raised(t)]
            /\ ctl_last' = CtlOutcome(t, "stop_raised")
            /\ UNCHANGED stream_state
       ELSE /\ stream_state' = [stream_state EXCEPT
                                   ![audio_stream] = StreamAfterStop(@)]
            /\ rpc' = [rpc EXCEPT ![t] = "stop_close"]
            /\ UNCHANGED ctl_last
    /\ UNCHANGED <<is_recording, audio_stream, audio_frames, last_sound_time,
                   now, wav_file, wav_writes, rdata, ctl_starts, ctl_stops,
                   read_log, self_stops, closes, stop_again>>
    /\ UNCHANGED <<silence_began, late_reads>>
    /\ UNCHANGED <<camVars, mpVars>>

\* StopRecording_Close with the failure of close swallowed
StopRecording_Close_Swallow(t) ==
    /\ rpc[t] = "stop_close"
    /\ IF StreamCloseFails(stream_state[audio_stream])
       THEN UNCHANGED <<stream_state, closes>>
       ELSE /\ stream_state' = [stream_state EXCEPT ![audio_stream] = "closed"]
            /\ closes' = [closes EXCEPT ![audio_stream] = @ + 1]
    /\ rpc' = [rpc EXCEPT ![t] = "stop_write"]
    /\ UNCHANGED <<is_recording, audio_stream, audio_frames, last_sound_time,
                   now, wav_file, wav_writes, rdata, ctl_starts, ctl_stops,
                   ctl_last, read_log, self_stops, stop_again>>
    /\ UNCHANGED <<silence_began, late_reads>>
    /\ UNCHANGED <<camVars, mpVars>>

\* stop_recording, line 92: self.audio_stream.close()
StopRecording_Close(t) ==
    /\ rpc[t] = "stop_close"
    /\ IF StreamCloseFails(stream_state[audio_stream])
       THEN /\ rpc' = [rpc EXCEPT ![t] = Raised(t)]
            /\ ctl_last' = CtlOutcome(t, "stop_raised")
            /\ late_reads' = [w \in Workers |-> IF w = t THEN 0 ELSE late_reads[w]]
            /\ UNCHANGED <<stream_state, closes>>
       ELSE /\ stream_state' = [stream_state EXCEPT ![audio_stream] = "closed"]
            /\ closes' = [closes EXCEPT ![audio_stream] = @ + 1]
            /\ rpc' = [rpc EXCEPT ![t] = "stop_write"]
            /\ UNCHANGED <<ctl_last, late_reads>>
    /\ UNCHANGED <<is_recording, audio_stream, audio_frames, last_sound_time,
                   now, wav_file, wav_writes, rdata, ctl_starts, ctl_stops,
                   read_log, self_stops, stop_again>>
    /\ UNCHANGED silence_began
    /\ UNCHANGED <<camVars, mpVars>>

\* stop_recording, lines 94-101: the file is opened, written with the joined
\* buffer and closed (the header carries the configured channels, sample
\* width and rate and is left out), and the call returns
StopRecording_Write(t) ==
    /\ rpc[t] = "stop_write"
    /\ wav_file' = Join(audio_frames)
    /\ wav_writes' = wav_writes + 1
    /\ rpc' = [rpc EXCEPT ![t] = Returned(t)]
    /\ ctl_last' = CtlOutcome(t, "stop_ok")
    /\ UNCHANGED <<is_recording, audio_stream, audio_frames, last_sound_time,
                   stream_state, now, rdata, ctl_starts, ctl_stops, read_log,
                   self_stops, closes, stop_again>>
    /\ UNCHANGED <<silence_began, late_reads>>
    /\ UNCHANGED <<camVars, mpVars>>

\* one step of stop_recording by thread t
StopRecording(t) ==
    \/ StopRecording_SetFlag(t)
    \/ StopRecording_StopStream(t)
    \/ StopRecording_Close(t)
    \/ StopRecording_Write(t)

\* one step of the worker thread w
RecWorker(w) ==
    \/ Record_Loop(w)
    \/ Record_Read(w)
    \/ Record_Process(w)
    \/ StopRecording(w)

\* one step of the controlling thread
RecController ==
    \/ StartRecording_SetFlag
    \/ StartRecording_Open
    \/ StartRecording_Spawn
    \/ StopRecording(Ctl)

RecWorkers == \E w \in Workers : RecWorker(w)

RecNext ==
    \/ Tick
    \/ RecController
    \/ RecWorkers

\* one step of a controlling thread that may start the instance again
RecControllerRestart ==
    \/ StartRecording_SetFlag_Again
    \/ StartRecording_Open
    \/ StartRecording_Spawn
    \/ StopRecording(Ctl)

RecNextRestart ==
    \/ Tick
    \/ RecControllerRestart
    \/ RecWorkers

(***************************************************************************)
(* WebcamImageSender                                                       *)
(***************************************************************************)
CamWorkers == 1..MaxStarts
NoImage == <<>>
NoFrame == <<>>

\* A colour frame is a sequence of pixels <<blue, green, red>>.
Colours == {<<0, 0, 0>>, <<0, 2, 0>>, <<255, 255, 255>>}
Frames == {<<a, b>> : a \in Colours, b \in Colours}

\* cv2.cvtColor(frame, cv2.COLOR_BGR2GRAY) of one 8-bit pixel: the weighted
\* sum 0.114 B + 0.587 G + 0.299 R in 14-bit fixed point, rounded
GrayPixel(px) == (1868 * px[1] + 9617 * px[2] + 4899 * px[3] + 8192) \div 16384

\* gray = cv2.cvtColor(frame, cv2.COLOR_BGR2GRAY)
Gray(frame) == [i \in 1..Len(frame) |-> GrayPixel(frame[i])]

Abs(x) == IF x < 0 THEN -x ELSE x

RECURSIVE SumSeq(_)
\* diff.sum()
SumSeq(q) == IF q = <<>> THEN 0 ELSE Head(q) + SumSeq(Tail(q))

\* cv2.absdiff(image, other)
absdiff(image, other) == [i \in 1..Len(image) |-> Abs(image[i] - other[i])]

\* image_difference with the sum kept in the 8 bits of a pixel
image_difference_Wrapped(image) ==
    IF last_image = NoImage THEN 0
    ELSE SumSeq(absdiff(image, last_image)) % 256

\* image_difference(image), lines 158-174; absdiff of 8-bit images is exact
\* and sum() adds in the platform's wide integer
image_difference(image) ==
    IF last_image = NoImage THEN 0
    ELSE SumSeq(absdiff(image, last_image))

\* FrameChanged with the threshold of line 148 counted as exceeded when met
FrameChanged_AtLeast(gray) == last_image = NoImage \/ image_difference(gray) >= 2

\* line 148: the current frame becomes the stable frame
FrameChanged(gray) == last_image = NoImage \/ image_difference(gray) > 2

CamInit ==
    /\ is_running = FALSE
    /\ capture_thread = 0
    /\ last_image = NoImage
    /\ last_change_time = -1
    /\ cam_state = [w \in CamWorkers |-> "none"]
    /\ cpc = [t \in {Ctl} \cup CamWorkers |-> IF t = Ctl THEN "idle" ELSE "unborn"]
    /\ cframe = [w \in CamWorkers |-> NoFrame]
    /\ cam_starts = 0
    /\ cam_stops = 0
    /\ cam_last = "none"
    /\ frames_read = 0
    /\ emitted = 0
    /\ late_frames = [w \in CamWorkers |-> 0]
    /\ late_emits = [w \in CamWorkers |-> 0]

\* start_capture, line 127: self.is_running = True
StartCapture_SetFlag ==
    /\ cpc[Ctl] = "idle"
    /\ cam_starts < MaxStarts
    /\ is_running' = TRUE
    /\ cam_starts' = cam_starts + 1
    /\ cpc' = [cpc EXCEPT ![Ctl] = "start_spawn"]
    /\ UNCHANGED <<capture_thread, last_image, last_change_time, cam_state,
                   cframe, cam_stops, cam_last, frames_read, emitted>>
    /\ late_frames' = [w \in CamWorkers |-> 0]
    /\ late_emits' = [w \in CamWorkers |-> 0]
    /\ UNCHANGED <<now, recVars, mpVars>>

\* start_capture, lines 128-129: the thread is created, stored and started
StartCapture_Spawn ==
    /\ cpc[Ctl] = "start_spawn"
    /\ capture_thread' = cam_starts
    /\ cpc' = [cpc EXCEPT ![Ctl] = "idle", ![cam_starts] = "open"]
    /\ cam_last' = "start_ok"
    /\ UNCHANGED <<is_running, last_image, last_change_time, cam_state,
                   cframe, cam_starts, cam_stops, frames_read, emitted>>
    /\ UNCHANGED <<late_frames, late_emits>>
    /\ UNCHANGED <<now, recVars, mpVars>>

\* stop_capture, line 135: self.is_running = False
StopCapture_SetFlag ==
    /\ cpc[Ctl] = "idle"
    /\ cam_stops < MaxStops
    /\ is_running' = FALSE
    /\ cam_stops' = cam_stops + 1
    /\ cpc' = [cpc EXCEPT ![Ctl] = "stop_join"]
    /\ UNCHANGED <<capture_thread, last_image, last_change_time, cam_state,
                   cframe, cam_starts, cam_last, frames_read, emitted>>
    /\ UNCHANGED <<late_frames, late_emits>>
    /\ UNCHANGED <<now, recVars, mpVars>>

\* stop_capture, line 136: self.capture_thread.join() returns once that
\* thread has ended; with no thread (None) the attribute access raises
StopCapture_Join ==
    /\ cpc[Ctl] = "stop_join"
    /\ IF capture_thread = 0
       THEN cam_last' = "stop_raised"
       ELSE /\ cpc[capture_thread] \in {"done", "dead"}
            /\ cam_last' = "stop_ok"
    /\ cpc' = [cpc EXCEPT ![Ctl] = "idle"]
    /\ UNCHANGED <<is_running, capture_thread, last_image, last_change_time,
                   cam_state, cframe, cam_starts, cam_stops, frames_read, emitted>>
    /\ UNCHANGED <<late_frames, late_emits>>
    /\ UNCHANGED <<now, recVars, mpVars>>

\* capture_image, line 142: cap = cv2.VideoCapture(0)
Capture_Open(w) ==
    /\ cpc[w] = "open"
    /\ cam_state' = [cam_state EXCEPT ![w] = "open"]
    /\ cpc' = [cpc EXCEPT ![w] = "loop"]
    /\ UNCHANGED <<is_running, capture_thread, last_image, last_change_time,
                   cframe, cam_starts, cam_stops, cam_last, frames_read, emitted>>
    /\ UNCHANGED <<late_frames, late_emits>>
    /\ UNCHANGED <<now, recVars, mpVars>>

\* Capture_Loop of a loop that does not look at is_running
Capture_Loop_Deaf(w) ==
    /\ cpc[w] = "loop"
    /\ cpc' = [cpc EXCEPT ![w] = "read"]
    /\ UNCHANGED <<is_running, capture_thread, last_image, last_change_time,
                   cam_state, cframe, cam_starts, cam_stops, cam_last,
                   frames_read, emitted, late_frames, late_emits>>
    /\ UNCHANGED <<now, recVars, mpVars>>

\* capture_image, line 144: while self.is_running
Capture_Loop(w) ==
    /\ cpc[w] = "loop"
    /\ cpc' = [cpc EXCEPT ![w] = IF is_running THEN "read" ELSE "release"]
    /\ late_frames' = [late_frames EXCEPT ![w] = IF is_running THEN @ ELSE 0]
    /\ late_emits' = [late_emits EXCEPT ![w] = IF is_running THEN @ ELSE 0]
    /\ UNCHANGED <<is_running, capture_thread, last_image, last_change_time,
                   cam_state, cframe, cam_starts, cam_stops, cam_last,
                   frames_read, emitted>>
    /\ UNCHANGED <<now, recVars, mpVars>>

\* capture_image, lines 145-146: ret, frame = cap.read() and the conversion
\* to grayscale; a failed read yields no frame (None), on which cvtColor
\* raises and ends the thread
Capture_Read(w) ==
    /\ cpc[w] = "read"
    /\ \/ /\ frames_read < MaxFrames
          /\ \E f \in Frames : cframe' = [cframe EXCEPT ![w] = f]
          /\ frames_read' = frames_read + 1
          /\ late_frames' = [late_frames EXCEPT
                                ![w] = IF is_running THEN @ ELSE @ + 1]
          /\ cpc' = [cpc EXCEPT ![w] = "compare"]
          /\ UNCHANGED late_emits
       \/ /\ cframe' = [cframe EXCEPT ![w] = NoFrame]
          /\ cpc' = [cpc EXCEPT ![w] = "dead"]
          /\ late_frames' = [late_frames EXCEPT ![w] = 0]
          /\ late_emits' = [late_emits EXCEPT ![w] = 0]
          /\ UNCHANGED frames_read
    /\ UNCHANGED <<is_running, capture_thread, last_image, last_change_time,
                   cam_state, cam_starts, cam_stops, cam_last, emitted>>
    /\ UNCHANGED <<now, recVars, mpVars>>

\* capture_image, lines 148-150: the stable frame and its time
Capture_Compare(w) ==
    /\ cpc[w] = "compare"
    /\ IF FrameChanged(Gray(cframe[w]))
       THEN /\ last_image' = Gray(cframe[w])
            /\ last_change_time' = now
       ELSE UNCHANGED <<last_image, last_change_time>>
    /\ cpc' = [cpc EXCEPT ![w] = "emit"]
    /\ UNCHANGED <<is_running, capture_thread, cam_state, cframe, cam_starts,
                   cam_stops, cam_last, frames_read, emitted>>
    /\ UNCHANGED <<late_frames, late_emits>>
    /\ UNCHANGED <<now, recVars, mpVars>>

\* Capture_Emit that sends a frame only when it replaced the stable frame
Capture_Emit_Gated(w) ==
    /\ cpc[w] = "emit"
    /\ emitted' = IF last_image = Gray(cframe[w]) THEN emitted + 1 ELSE emitted
    /\ cpc' = [cpc EXCEPT ![w] = "loop"]
    /\ UNCHANGED <<is_running, capture_thread, last_image, last_change_time,
                   cam_state, cframe, cam_starts, cam_stops, cam_last, frames_read>>
    /\ late_emits' = [late_emits EXCEPT ![w] =
                         IF is_running \/ last_image # Gray(cframe[w]) THEN @ ELSE @ + 1]
    /\ UNCHANGED late_frames
    /\ UNCHANGED <<now, recVars, mpVars>>

\* capture_image, lines 152-154: the frame is JPEG-encoded, base64-encoded
\* and emitted as an "image" event
Capture_Emit(w) ==
    /\ cpc[w] = "emit"
    /\ emitted' = emitted + 1
    /\ cpc' = [cpc EXCEPT ![w] = "loop"]
    /\ UNCHANGED <<is_running, capture_thread, last_image, last_change_time,
                   cam_state, cframe, cam_starts, cam_stops, cam_last, frames_read>>
    /\ late_emits' = [late_emits EXCEPT ![w] = IF is_running THEN @ ELSE @ + 1]
    /\ UNCHANGED late_frames
    /\ UNCHANGED <<now, recVars, mpVars>>

\* capture_image, line 156: cap.release()
Capture_Release(w) ==
    /\ cpc[w] = "release"
    /\ cam_state' = [cam_state EXCEPT ![w] = "released"]
    /\ cpc' = [cpc EXCEPT ![w] = "done"]
    /\ UNCHANGED <<is_running, capture_thread, last_image, last_change_time,
                   cframe, cam_starts, cam_stops, cam_last, frames_read, emitted>>
    /\ UNCHANGED <<late_frames, late_emits>>
    /\ UNCHANGED <<now, recVars, mpVars>>

\* one step of the capture worker w
CamWorker(w) ==
    \/ Capture_Open(w)
    \/ Capture_Loop(w)
    \/ Capture_Read(w)
    \/ Capture_Compare(w)
    \/ Capture_Emit(w)
    \/ Capture_Release(w)

\* one step of the controlling thread
CamController ==
    \/ StartCapture_SetFlag
    \/ StartCapture_Spawn
    \/ StopCapture_SetFlag
    \/ StopCapture_Join

CamNext ==
    \/ Tick
    \/ CamController
    \/ \E w \in CamWorkers : CamWorker(w)

(***************************************************************************)
(* MusicPlayer                                                             *)
(***************************************************************************)
\* the thread that executes run()
Player == 1

\* pygame.mixer.music.get_busy(): music that plays is busy; paused music is
\* busy or not, by the installed pygame
get_busy == mixer = "playing" \/ (mixer = "paused" /\ busy_when_paused)

MpInit ==
    /\ paused = FALSE
    /\ stopped = FALSE
    /\ mixer = "uninit"
    /\ track_pos = 0
    /\ busy_when_paused = FALSE
    /\ mpc = [t \in {Ctl, Player} |-> IF t = Ctl THEN "idle" ELSE "unstarted"]
    /\ mp_calls = 0
    /\ mp_last = "none"
    /\ stop_called = FALSE
    /\ pause_resume = "none"
    /\ bodies_after_stop = 0

\* threading.Thread.start(): the first call starts run() in the worker
\* thread, a later call raises
Player_Start ==
    /\ mpc[Ctl] = "idle"
    /\ IF mpc[Player] = "unstarted"
       THEN /\ mpc' = [mpc EXCEPT ![Player] = "init"]
            /\ mp_last' = "start_ok"
       ELSE /\ mp_last' = "start_raised"
            /\ UNCHANGED mpc
    /\ UNCHANGED <<paused, stopped, mixer, track_pos, busy_when_paused,
                   mp_calls, stop_called, bodies_after_stop, pause_resume>>
    /\ UNCHANGED <<now, recVars, camVars>>

\* Player_Pause of a pause() that also pauses the mixer
Player_Pause_Immediate ==
    /\ mpc[Ctl] = "idle"
    /\ mp_calls < MaxCalls
    /\ paused' = TRUE
    /\ mixer' = IF mixer = "playing" THEN "paused" ELSE mixer
    /\ mp_calls' = mp_calls + 1
    /\ mp_last' = "pause_ok"
    /\ pause_resume' = IF mixer = "playing" THEN "paused" ELSE pause_resume
    /\ UNCHANGED <<stopped, track_pos, busy_when_paused, mpc,
                   stop_called, bodies_after_stop>>
    /\ UNCHANGED <<now, recVars, camVars>>

\* pause(), line 210
Player_Pause ==
    /\ mpc[Ctl] = "idle"
    /\ mp_calls < MaxCalls
    /\ paused' = TRUE
    /\ mp_calls' = mp_calls + 1
    /\ mp_last' = "pause_ok"
    /\ pause_resume' = IF mixer = "playing" THEN "paused" ELSE pause_resume
    /\ UNCHANGED <<stopped, mixer, track_pos, busy_when_paused, mpc,
                   stop_called, bodies_after_stop>>
    /\ UNCHANGED <<now, recVars, camVars>>

\* resume(), line 216
Player_Resume ==
    /\ mpc[Ctl] = "idle"
    /\ mp_calls < MaxCalls
    /\ paused' = FALSE
    /\ mp_calls' = mp_calls + 1
    /\ mp_last' = "resume_ok"
    /\ pause_resume' = IF pause_resume = "paused" THEN "resumed" ELSE pause_resume
    /\ UNCHANGED <<stopped, mixer, track_pos, busy_when_paused, mpc,
                   stop_called, bodies_after_stop>>
    /\ UNCHANGED <<now, recVars, camVars>>

\* stop(), line 222: self.stopped = True
Player_Stop_SetFlag ==
    /\ mpc[Ctl] = "idle"
    /\ mp_calls < MaxCalls
    /\ stopped' = TRUE
    /\ stop_called' = TRUE
    /\ mp_calls' = mp_calls + 1
    /\ mpc' = [mpc EXCEPT ![Ctl] = "stop_halt"]
    /\ UNCHANGED <<paused, mixer, track_pos, busy_when_paused, mp_last,
                   bodies_after_stop, pause_resume>>
    /\ UNCHANGED <<now, recVars, camVars>>

\* Player_Stop_Halt of a stop() that forgets the mixer
Player_Stop_Halt_Missing ==
    /\ mpc[Ctl] = "stop_halt"
    /\ mp_last' = "stop_ok"
    /\ mpc' = [mpc EXCEPT ![Ctl] = "idle"]
    /\ UNCHANGED <<paused, stopped, mixer, track_pos, busy_when_paused,
                   mp_calls, stop_called, bodies_after_stop, pause_resume>>
    /\ UNCHANGED <<now, recVars, camVars>>

\* stop(), line 223: pygame.mixer.music.stop() halts music that plays or is
\* paused; on a mixer that is not initialised it raises
Player_Stop_Halt ==
    /\ mpc[Ctl] = "stop_halt"
    /\ IF mixer = "uninit"
       THEN /\ mp_last' = "stop_raised"
            /\ UNCHANGED mixer
       ELSE /\ mixer' = IF mixer \in {"playing", "paused"} THEN "halted" ELSE mixer
            /\ mp_last' = "stop_ok"
    /\ mpc' = [mpc EXCEPT ![Ctl] = "idle"]
    /\ UNCHANGED <<paused, stopped, track_pos, busy_when_paused, mp_calls,
                   stop_called, bodies_after_stop, pause_resume>>
    /\ UNCHANGED <<now, recVars, camVars>>

\* run(), line 196: pygame.mixer.init(); which pygame is installed shows
\* from here on
Run_Init ==
    /\ mpc[Player] = "init"
    /\ mixer' = IF mixer = "uninit" THEN "idle" ELSE mixer
    /\ busy_when_paused' \in BOOLEAN
    /\ mpc' = [mpc EXCEPT ![Player] = "load"]
    /\ UNCHANGED <<paused, stopped, track_pos, mp_calls,
                   mp_last, stop_called, bodies_after_stop, pause_resume>>
    /\ UNCHANGED <<now, recVars, camVars>>

\* run(), line 197: pygame.mixer.music.load(self.file_path) loads the file
\* or raises
Run_Load ==
    /\ mpc[Player] = "load"
    /\ \/ /\ mixer' = "loaded"
          /\ mpc' = [mpc EXCEPT ![Player] = "play"]
       \/ /\ mpc' = [mpc EXCEPT ![Player] = "dead"]
          /\ UNCHANGED mixer
    /\ UNCHANGED <<paused, stopped, track_pos, busy_when_paused, mp_calls,
                   mp_last, stop_called, bodies_after_stop, pause_resume>>
    /\ UNCHANGED <<now, recVars, camVars>>

\* run(), line 198: pygame.mixer.music.play() starts the track from its
\* beginning
Run_Play ==
    /\ mpc[Player] = "play"
    /\ mixer' = "playing"
    /\ track_pos' = 0
    /\ mpc' = [mpc EXCEPT ![Player] = "poll"]
    /\ UNCHANGED <<paused, stopped, busy_when_paused, mp_calls, mp_last,
                   stop_called, bodies_after_stop, pause_resume>>
    /\ UNCHANGED <<now, recVars, camVars>>

\* run(), line 200: while pygame.mixer.music.get_busy() and not self.stopped
Run_Poll ==
    /\ mpc[Player] = "poll"
    /\ IF get_busy /\ ~stopped
       THEN mpc' = [mpc EXCEPT ![Player] = "body"]
       ELSE mpc' = [mpc EXCEPT ![Player] = "done"]
    /\ UNCHANGED <<paused, stopped, mixer, track_pos, busy_when_paused,
                   mp_calls, mp_last, stop_called, bodies_after_stop, pause_resume>>
    /\ UNCHANGED <<now, recVars, camVars>>

\* run(), lines 201-204: pause() pauses music that plays, unpause() resumes
\* music that is paused; neither does anything else
Run_Body ==
    /\ mpc[Player] = "body"
    /\ mixer' = IF paused
                THEN (IF mixer = "playing" THEN "paused" ELSE mixer)
                ELSE (IF mixer = "paused" THEN "playing" ELSE mixer)
    /\ bodies_after_stop' =
          IF stop_called THEN bodies_after_stop + 1 ELSE bodies_after_stop
    /\ mpc' = [mpc EXCEPT ![Player] = "poll"]
    /\ UNCHANGED <<paused, stopped, track_pos, busy_when_paused, mp_calls,
                   mp_last, stop_called, pause_resume>>
    /\ UNCHANGED <<now, recVars, camVars>>

\* the mixer plays the track on, to its end
Track_Advance ==
    /\ mixer = "playing"
    /\ track_pos < TrackLen
    /\ track_pos' = track_pos + 1
    /\ mixer' = IF track_pos + 1 = TrackLen THEN "finished" ELSE mixer
    /\ UNCHANGED <<paused, stopped, busy_when_paused, mpc, mp_calls, mp_last,
                   stop_called, bodies_after_stop, pause_resume>>
    /\ UNCHANGED <<now, recVars, camVars>>

\* one step of the thread that executes run()
PlayerWorker ==
    \/ Run_Init
    \/ Run_Load
    \/ Run_Play
    \/ Run_Poll
    \/ Run_Body

\* one step of the controlling thread
PlayerController ==
    \/ Player_Start
    \/ Player_Pause
    \/ Player_Resume
    \/ Player_Stop_SetFlag
    \/ Player_Stop_Halt

PlayerNext ==
    \/ PlayerController
    \/ PlayerWorker
    \/ Track_Advance

(***************************************************************************)
(* The specifications                                                      *)
(***************************************************************************)
Init ==
    /\ now = 0
    /\ RecInit
    /\ CamInit
    /\ MpInit

\* the three helpers side by side
Next ==
    \/ RecNext
    \/ CamNext
    \/ PlayerNext

Spec == Init /\ [][Next]_vars

SpecRecorder == Init /\ [][RecNext]_vars

\* the scheduler runs every worker thread that can take a step
FairSpecRecorder == SpecRecorder /\ \A w \in Workers : WF_vars(RecWorker(w))

\* the recorder, with a controlling thread that may start it again
SpecRecorderRestart == Init /\ [][RecNextRestart]_vars

SpecWebcam == Init /\ [][CamNext]_vars

\* the host has not touched the recorder / the webcam sender
RecUntouched == ctl_starts = 0 /\ ctl_stops = 0 /\ rpc[Ctl] = "idle"
CamUntouched == cam_starts = 0 /\ cam_stops = 0 /\ cpc[Ctl] = "idle"

\* a host that uses the recorder or the webcam sender, one of the two; the
\* clock matters to the recorder only
RecOrCamNext ==
    \/ CamUntouched /\ RecNext
    \/ RecUntouched /\ (CamController \/ \E w \in CamWorkers : CamWorker(w))

SpecRecorderOrWebcam == Init /\ [][RecOrCamNext]_vars

SpecPlayer == Init /\ [][PlayerNext]_vars

\* the scheduler runs the worker thread, and music that plays goes on
FairSpecPlayer == SpecPlayer /\ WF_vars(PlayerWorker) /\ WF_vars(Track_Advance)

(***************************************************************************)
(* AudioRecorder: the properties                                           *)
(***************************************************************************)
\* every chunk read so far is not silent
AllLoud == \A i \in 1..Len(read_log) : ~IsSilent(read_log[i])

\* the controlling thread has made exactly its one successful start_recording
\* call and nothing else, so that the only worker is worker 1
OnlyStarted ==
    /\ ctl_starts = 1
    /\ ctl_stops = 0
    /\ rpc[Ctl] = "idle"
    /\ ctl_last = "start_ok"

\* silence_duration seconds have passed since the last sound
DurationPassed == now - last_sound_time >= silence_duration

\* the worker is recording, silence_duration seconds have passed since the
\* last sound and the chunk in hand, if any, is silent
SilenceElapsed ==
    /\ OnlyStarted
    /\ is_recording
    /\ \/ rpc[1] \in {"loop", "read"} /\ Len(read_log) < MaxChunks
       \/ rpc[1] = "process" /\ IsSilent(rdata[1])
    /\ DurationPassed

\* the worker has stopped the recording itself and left its loop, and the one
\* file written holds every chunk read, in read order
SelfStoppedAndSaved ==
    /\ self_stops = 1
    /\ rpc[1] = "done"
    /\ wav_writes = 1
    /\ audio_frames = read_log
    /\ wav_file = Join(read_log)

\* C1: once silence_duration seconds have passed since the last sound and
\* every chunk read from then on is below the threshold, the worker calls
\* stop_recording itself and exactly one file is written, holding every chunk
\* appended to the buffer in read order.  (A chunk above the threshold that
\* is read first sets last_sound_time and ends the silence; another call of
\* the controlling thread ends the case.)
C1_SilenceSelfStops ==
    SilenceElapsed ~> (\/ SelfStoppedAndSaved
                       \/ ~DurationPassed
                       \/ ~OnlyStarted)

C1_Witness ==
    /\ OnlyStarted
    /\ SelfStoppedAndSaved
    /\ Len(read_log) >= 2
    /\ ~IsSilent(read_log[1])
    /\ last_sound_time > 0

\* C2: as long as every chunk read is at or above the threshold, no worker
\* has called stop_recording, however much time has passed; the recording
\* is ended only by the controlling thread's stop_recording.
C2_LoudNeverSelfStops ==
    AllLoud => /\ self_stops = 0
               /\ \A w \in Workers :
                     rpc[w] \notin {"stop_flag", "stop_stream", "stop_close", "stop_write"}
               /\ (wav_writes > 0 => ctl_stops > 0)

C2_Witness ==
    /\ AllLoud
    /\ Len(audio_frames) = MaxChunks
    /\ now - last_sound_time >= silence_duration
    /\ rpc[1] = "done"
    /\ ctl_last = "stop_ok"
    /\ self_stops = 0

\* C6: however the worker's own stop_recording and the controlling thread's
\* stop_recording calls interleave, every stream is closed successfully at
\* most once and the file is written at most once per closed stream (at most
\* once for one recording session).
C6_CloseAndWriteAtMostOnce ==
    /\ \A s \in Streams : closes[s] <= 1
    /\ wav_writes <= Cardinality({s \in Streams : closes[s] > 0})

C6_Witness ==
    /\ self_stops = 1
    /\ rpc[1] = "dead"
    /\ ctl_stops >= 1
    /\ ctl_last = "stop_ok"
    /\ closes[1] = 1
    /\ wav_writes = 1

\* the controlling thread is inside a stop_recording call
CtlInStop == rpc[Ctl] \in {"stop_stream", "stop_close", "stop_write"}

\* C7: a stop_recording call made after an earlier one has completed on the
\* same stream fails at the stream stop/close step: it never reaches the
\* step that opens the file, it ends by raising, and the file is left as the
\* first call wrote it.
C7_SecondStopFails ==
    /\ [](stop_again =>
            \/ rpc[Ctl] \in {"stop_stream", "stop_close"}
            \/ rpc[Ctl] = "idle" /\ ctl_last = "stop_raised")
    /\ [][stop_again' /\ (CtlInStop \/ CtlInStop')
            => wav_file' = wav_file /\ wav_writes' = wav_writes]_vars

C7_Witness ==
    /\ stop_again
    /\ rpc[Ctl] = "idle"
    /\ ctl_last = "stop_raised"
    /\ wav_writes = 1
    /\ wav_file # <<>>

\* C8: after a stop_recording call of the controlling thread has returned,
\* the file holds exactly the chunks of the buffer, in append order.
C8_FileHoldsBuffer ==
    (rpc[Ctl] = "idle" /\ ctl_last = "stop_ok") => wav_file = Join(audio_frames)

(***************************************************************************)
(* WebcamImageSender: the properties                                       *)
(***************************************************************************)
\* the workers that hold a frame they have read and not yet emitted
FrameInHand == {w \in CamWorkers : cpc[w] \in {"compare", "emit"}}

C9_StopReleasesCamera ==
    (cpc[Ctl] = "idle" /\ cam_last = "stop_ok") =>
        /\ cpc[capture_thread] \in {"done", "dead"}
        /\ cam_state[capture_thread] = "released"

(***************************************************************************)
(* MusicPlayer: the properties                                             *)
(***************************************************************************)
\* the step by which a stop() call ends
StopEnds == mpc[Ctl] = "stop_halt" /\ mpc'[Ctl] = "idle"

\* C3: when a stop() call ends the mixer neither plays nor is paused; the
\* worker runs at most one more loop body after stop() was called; and a
\* started worker then leaves run().
C3_StopHaltsAndExits ==
    /\ [][StopEnds => mixer' \notin {"playing", "paused"}]_vars
    /\ [](bodies_after_stop <= 1)
    /\ ((stop_called /\ mpc[Player] # "unstarted")
            ~> (mpc[Player] \in {"done", "dead"}))

C3_Witness ==
    /\ stop_called
    /\ mp_last = "stop_ok"
    /\ mixer = "halted"
    /\ bodies_after_stop = 1
    /\ mpc[Player] = "done"

\* C4: with pause() called while the track played, resume() called after it
\* and stop() never called, the worker leaves its loop only when the track
\* has finished.
C4_LoopExitsOnlyWhenFinished ==
    (/\ mpc[Player] = "done"
     /\ pause_resume = "resumed"
     /\ ~paused
     /\ ~stop_called)
        => mixer = "finished"

\* C10: once stopped is set it stays set, and once the stop() call that set
\* it has ended no step puts the mixer into the playing state.
C10_StoppedIsTerminal ==
    [][stopped => /\ stopped'
                  /\ (mpc[Ctl] = "idle" /\ mixer' = "playing" => mixer = "playing")]_vars

(***************************************************************************)
(* AudioRecorder: starting again, workers and streams                      *)
(***************************************************************************)
\* a stop_recording call of the controlling thread has closed the first
\* stream and run to its end (no worker stopped the recording itself), and
\* the controlling thread has called start_recording again after it
RestartedAfterStop ==
    /\ self_stops = 0
    /\ closes[1] = 1
    /\ ctl_starts >= 2

\* C11: after stop_recording has completed, a later start_recording on the
\* same instance begins no new session: no worker spawned by it holds a
\* chunk it read (to append it to the buffer), and the file is not written
\* a second time.
C11_NoSessionAfterStop ==
    RestartedAfterStop =>
        /\ \A w \in Workers : w > 1 => rpc[w] # "process"
        /\ wav_writes <= 1

(***************************************************************************)
(* WebcamImageSender: the difference and the stable frame                  *)
(***************************************************************************)
\* the grayscale images the camera can deliver
GrayImages == {Gray(f) : f \in Frames}

RECURSIVE DiffUpTo(_, _, _)
\* the differences of the first n pixels of a and b, larger less smaller,
\* added up
DiffUpTo(a, b, n) ==
    IF n = 0 THEN 0
    ELSE (IF a[n] >= b[n] THEN a[n] - b[n] ELSE b[n] - a[n])
         + DiffUpTo(a, b, n - 1)

\* every pixel of a differs from that of b by the most an 8-bit pixel can
MaxApart(a, b) == \A i \in 1..Len(a) : {a[i], b[i]} = {0, 255}

\* C12: with a stable frame stored, image_difference(image) is the sum over
\* all pixels of the absolute difference between image and the stable
\* frame: 0 for an image identical to it, and 255 times the number of pixels
\* for an image every pixel of which differs maximally.
C12_ImageDifference ==
    last_image # NoImage =>
        \A g \in GrayImages :
            /\ image_difference(g) = DiffUpTo(g, last_image, Len(g))
            /\ (g = last_image => image_difference(g) = 0)
            /\ (MaxApart(g, last_image) => image_difference(g) = 255 * Len(g))

\* a worker is about to compare a frame every pixel of which differs
\* maximally from the stable frame
C12_Witness ==
    /\ last_image # NoImage
    /\ \E w \in CamWorkers :
          /\ cpc[w] = "compare"
          /\ MaxApart(Gray(cframe[w]), last_image)
          /\ image_difference(Gray(cframe[w])) = 510

\* the recorder's worker threads that have been started and have not ended
AliveWorkers == {w \in Workers : rpc[w] \notin {"unborn", "done", "dead"}}

\* the microphone streams that are open
OpenStreams == {s \in Streams : stream_state[s] = "open"}

\* C13: whatever start and stop calls were made, at most one worker thread
\* of the recorder is alive and at most one microphone stream is open.
C13_OneWorkerOneStream ==
    /\ Cardinality(AliveWorkers) <= 1
    /\ Cardinality(OpenStreams) <= 1

(***************************************************************************)
(* AudioRecorder: the silence policy, stopping and failures                *)
(***************************************************************************)
\* the step by which worker w calls stop_recording itself
SelfStopStep(w) == rpc[w] = "process" /\ rpc'[w] = "stop_flag"

\* C14: a worker calls stop_recording itself only on an iteration whose
\* chunk is below the threshold, and only when the silence being recorded
\* (since the stream was opened, or since the last chunk that was not below
\* the threshold) has lasted silence_duration seconds.
C14_SelfStopOnlyAfterSilence ==
    [][\A w \in Workers :
          SelfStopStep(w) =>
              /\ IsSilent(rdata[w])
              /\ now - silence_began >= silence_duration]_vars

\* C15: stopping takes effect at the next iteration boundary.  While
\* is_running is False a capture worker still in its loop has read at most
\* one frame and emitted at most one event since the flag was cleared, and
\* while is_recording is False a recorder worker still running has read at
\* most one chunk since it was cleared.
C15_StopAtIterationBoundary ==
    /\ \A w \in CamWorkers : late_frames[w] <= 1 /\ late_emits[w] <= 1
    /\ \A w \in Workers : late_reads[w] <= 1

\* stop_capture has returned after the worker read and emitted one more
\* frame
C15_Witness ==
    /\ ~is_running
    /\ late_frames[1] = 1
    /\ late_emits[1] = 1
    /\ cpc[1] = "loop"
    /\ cpc[Ctl] = "stop_join"

\* the recorder worker holds the one chunk it read after the controlling
\* thread's stop_recording cleared is_recording
C15_WitnessRecorder ==
    /\ ~is_recording
    /\ late_reads[1] = 1
    /\ rpc[1] = "process"
    /\ ctl_stops = 1
    /\ self_stops = 0

(***************************************************************************)
(* MusicPlayer: pause and resume                                           *)
(***************************************************************************)
\* a pause() or resume() call: a call counted in mp_calls that returns at once
PauseOrResumeStep ==
    /\ mpc[Ctl] = "idle"
    /\ mpc'[Ctl] = "idle"
    /\ mp_calls' = mp_calls + 1

\* the worker runs the body of one poll iteration
BodyStep == mpc[Player] = "body" /\ mpc'[Player] = "poll"

\* C16: pause() and resume() change the paused flag only: stopped, the
\* mixer's state and the position in the track are as before.  Music that
\* plays becomes paused, and paused music plays again, only in the body of
\* a poll iteration of the worker, which pauses when paused is true and
\* unpauses when it is false.
C16_PauseResumeOnlyToggle ==
    [][/\ PauseOrResumeStep =>
              /\ stopped' = stopped
              /\ mixer' = mixer
              /\ track_pos' = track_pos
       /\ (mixer = "playing" /\ mixer' = "paused") => (BodyStep /\ paused)
       /\ (mixer = "paused" /\ mixer' = "playing") => (BodyStep /\ ~paused)
       /\ BodyStep =>
              /\ (paused /\ mixer = "playing" => mixer' = "paused")
              /\ (~paused /\ mixer = "paused" => mixer' = "playing")]_vars

\* resume() has returned and the music is still paused: the worker, in the
\* body of a poll iteration, is about to unpause it
C16_Witness ==
    /\ mp_last = "resume_ok"
    /\ ~paused
    /\ mixer = "paused"
    /\ mpc[Player] = "body"

(***************************************************************************)
(* WebcamImageSender: when the stable frame is replaced                    *)
(***************************************************************************)
\* worker w runs lines 148-150 on the frame it holds
CompareStep(w) == cpc[w] = "compare" /\ cpc'[w] = "emit"

\* C17: in an iteration of the capture worker the stable frame and its
\* timestamp are replaced by the current grayscale frame and the current
\* time exactly when there is no stable frame yet or the pixel-difference
\* sum against it exceeds 2; otherwise, and in every other step, both are
\* left as they are.
C17_StableFrameReplacedOnChange ==
    [][/\ \A w \in CamWorkers :
             CompareStep(w) =>
                 IF \/ last_image = NoImage
                    \/ DiffUpTo(Gray(cframe[w]), last_image, Len(last_image)) > 2
                 THEN /\ last_image' = Gray(cframe[w])
                      /\ last_change_time' = now
                 ELSE /\ last_image' = last_image
                      /\ last_change_time' = last_change_time
       /\ (\A w \in CamWorkers : ~CompareStep(w)) =>
              /\ last_image' = last_image
              /\ last_change_time' = last_change_time]_vars

\* an iteration whose frame differs from the stable frame by exactly 2 has
\* left the stable frame as it was
C17_Witness ==
    /\ cpc[1] = "emit"
    /\ last_image # NoImage
    /\ last_image # Gray(cframe[1])
    /\ DiffUpTo(Gray(cframe[1]), last_image, Len(last_image)) = 2

(***************************************************************************)
(* AudioRecorder: reading a stopped stream, and a start that fails         *)
(***************************************************************************)
\* worker w calls read on the stream (whether the read succeeds or fails)
ReadStep(w) == rpc[w] = "read" /\ rpc'[w] # "read"

\* C18: a worker calls read only on a stream that is open: never on one
\* that a stop_recording call has stopped or closed.
C18_NoReadAfterStreamStopped ==
    [][\A w \in Workers :
          ReadStep(w) => stream_state[audio_stream] = "open"]_vars

\* C19: when start_recording has raised because the stream could not be
\* opened, the recorder is as before the call: is_recording is False, no
\* stream is held and no worker has been spawned.
C19_FailedStartLeavesNoTrace ==
    (rpc[Ctl] = "idle" /\ ctl_last = "start_raised" /\ ctl_starts = 1) =>
        /\ ~is_recording
        /\ audio_stream = 0
        /\ \A w \in Workers : rpc[w] = "unborn"

====
